---------------------------- MODULE Spec2Model ----------------------------
(***************************************************************************)
(* A model of pmt2bmp.c: the PMT group reader, the RLE decoder, the        *)
(* bit-plane reassembler, the colour-table converter and the pipeline      *)
(* (pmt_to_bmp and main) that drives them.                                 *)
(*                                                                         *)
(* Buffers are functions from 0-based offsets to bytes, pointers are       *)
(* offsets from the start of the buffer they point into.  The image        *)
(* dimensions are scaled down (PlaneBytes and RowsPerGroup stand for the    *)
(* 105 and 148 of the source); every size derived from them is derived     *)
(* as the source derives it.                                               *)
(***************************************************************************)
EXTENDS Integers, Sequences, FiniteSets, TLC

(***************************************************************************)
(* Bounds of the model.                                                    *)
(***************************************************************************)
\* stands for PMT_DECODED_ROW_PLANE_BYTES (105 in the source)
PlaneBytes == 1
\* stands for PMT_ROWS_PER_GROUP (148 in the source)
RowsPerGroup == 2
\* longest raw buffer handed to the decoder on its own
MaxRaw == 4
\* longest stream and largest buffer handed to the group reader on its own
MaxStream == 7
MaxBuf == 3

(***************************************************************************)
(* Program constants.                                                      *)
(***************************************************************************)
PMT_PLANES == 4
PMT_GROUPS == 6
COLOR_ENTRIES == 16
PMT_COLOR_CHANNELS == 3
BMP_COLOR_CHANNELS == 4
FOOTER_SKIP == 16
RUN_FLAG == 128
LENGTH_MASK == 127
BYTE_RANGE == 2 ^ 8

PMT_DECODED_ROW_PLANE_BYTES == PlaneBytes
PMT_PIXELS_PER_ROW == PMT_DECODED_ROW_PLANE_BYTES * 8
PMT_DECODED_ROW_BYTES == PMT_DECODED_ROW_PLANE_BYTES * PMT_PLANES
BMP_ROW_BYTES == PMT_DECODED_ROW_BYTES
PMT_ROWS_PER_GROUP == RowsPerGroup
PMT_DECODED_GROUP_BYTES == PMT_DECODED_ROW_BYTES * PMT_ROWS_PER_GROUP
BMP_GROUP_BYTES == BMP_ROW_BYTES * PMT_ROWS_PER_GROUP
BMP_PIXEL_ARRAY_SIZE == BMP_GROUP_BYTES * PMT_GROUPS

(***************************************************************************)
(* Helpers.                                                                *)
(***************************************************************************)
Max(a, b) == IF a >= b THEN a ELSE b
Min(a, b) == IF a <= b THEN a ELSE b

\* a cell of an automatic buffer that nothing has stored to yet
Unwritten == 0 - 1

SeqsUpTo(S, n) == UNION {[1..k -> S] : k \in 0..n}

\* the longest run a single opcode of this model's alphabet can ask for that
\* still fills a decoded group exactly
FullRun == Min(PMT_DECODED_GROUP_BYTES, LENGTH_MASK)

\* the raw bytes the model draws from: literal counts 0, 1, 2; runs of 0, 1,
\* a whole group less one byte, a whole group; the longest run (127)
RawBytes ==
    {0, 1, 2, RUN_FLAG, RUN_FLAG + 1, RUN_FLAG + FullRun - 1, RUN_FLAG + FullRun,
     RUN_FLAG + LENGTH_MASK}

\* what a read outside an object may find there
GarbageBytes == {0, 85}

VARIABLES dec, rg, cv, ct, pipe

vars == <<dec, rg, cv, ct, pipe>>

(***************************************************************************)
(* pmt_decode_group.  The activation record keeps the arguments, the two   *)
(* cursors as offsets, the return value, and three observations of the     *)
(* run: the message printed (err), the highest offset of raw_group_buf     *)
(* read (rd_max) and the highest offset of decoded_group_buf written       *)
(* (wr_max).  adjacent is the byte found by a read past the end of the     *)
(* object raw_group_buf points into.                                       *)
(***************************************************************************)
IdleDec == [pc |-> "idle"]
IdleRg == [pc |-> "idle"]
IdleCv == [pc |-> "idle"]
IdleCt == [pc |-> "idle"]
IdlePipe == [pc |-> "idle"]

NewDec(raw_group_buf, raw_group_size, decoded_group_buf, decoded_group_buf_size, adjacent) ==
    [pc |-> "loop",
     raw_group_buf |-> raw_group_buf,
     raw_group_size |-> raw_group_size,
     decoded_group_buf |-> decoded_group_buf,
     decoded_group_buf_size |-> decoded_group_buf_size,
     adjacent |-> adjacent,
     src |-> 0,
     dst |-> 0,
     ret |-> 0,
     err |-> "none",
     rd_max |-> -1,
     wr_max |-> -1]

\* *(raw_group_buf + i): a cell nothing has stored to, and a cell past the end
\* of the buffer, hold whatever the memory there holds
RawAt(d, i) ==
    IF i < Len(d.raw_group_buf) /\ d.raw_group_buf[i + 1] # Unwritten
    THEN d.raw_group_buf[i + 1]
    ELSE d.adjacent

\* *src & 0x80
IsRun(b) == (b \div RUN_FLAG) % 2 = 1

\* the input-bounds test made after the opcode byte has been consumed
InputOverrun(src, raw_group_size) == src > raw_group_size

\* a bounds test that lets a write end one byte past the buffer
OutputOverrunOffByOne(dst, count, decoded_group_buf_size) ==
    dst + count > decoded_group_buf_size + 1

\* the output-bounds test made before an opcode writes count bytes
OutputOverrun(dst, count, decoded_group_buf_size) ==
    dst + count > decoded_group_buf_size

DecFail(d, src, rd, err) ==
    [d EXCEPT !.pc = "done", !.ret = -1, !.err = err, !.src = src,
              !.rd_max = Max(d.rd_max, rd)]

\* the branch of the loop body for a control byte with the high bit set
RunOpcode(d) ==
    LET run_length == RawAt(d, d.src) % RUN_FLAG
        src == d.src + 1
    IN  IF InputOverrun(src, d.raw_group_size)
        THEN DecFail(d, src, d.src, "InputOverrun")
        ELSE IF OutputOverrun(d.dst, run_length, d.decoded_group_buf_size)
        THEN DecFail(d, src, d.src, "OutputOverrun")
        ELSE [d EXCEPT
                !.decoded_group_buf =
                    [k \in DOMAIN d.decoded_group_buf |->
                        IF d.dst <= k /\ k < d.dst + run_length
                        THEN RawAt(d, src) ELSE d.decoded_group_buf[k]],
                !.rd_max = Max(d.rd_max, src),
                !.wr_max = IF run_length > 0
                           THEN Max(d.wr_max, d.dst + run_length - 1)
                           ELSE d.wr_max,
                !.src = src + 1,
                !.dst = d.dst + run_length]

\* a literal copy that starts at the count byte instead of the byte after it
LiteralOpcodeFromCount(d) ==
    LET copy_count == RawAt(d, d.src)
        src == d.src + 1
    IN  IF OutputOverrun(d.dst, copy_count, d.decoded_group_buf_size)
        THEN DecFail(d, src, d.src, "OutputOverrun")
        ELSE [d EXCEPT
                !.decoded_group_buf =
                    [k \in DOMAIN d.decoded_group_buf |->
                        IF d.dst <= k /\ k < d.dst + copy_count
                        THEN RawAt(d, d.src + (k - d.dst)) ELSE d.decoded_group_buf[k]],
                !.rd_max = Max(d.rd_max, d.src + copy_count),
                !.wr_max = IF copy_count > 0
                           THEN Max(d.wr_max, d.dst + copy_count - 1)
                           ELSE d.wr_max,
                !.src = src + copy_count,
                !.dst = d.dst + copy_count]

\* the branch of the loop body for a control byte with the high bit clear
LiteralOpcode(d) ==
    LET copy_count == RawAt(d, d.src)
        src == d.src + 1
    IN  IF InputOverrun(src, d.raw_group_size)
        THEN DecFail(d, src, d.src, "InputOverrun")
        ELSE IF OutputOverrun(d.dst, copy_count, d.decoded_group_buf_size)
        THEN DecFail(d, src, d.src, "OutputOverrun")
        ELSE [d EXCEPT
                !.decoded_group_buf =
                    [k \in DOMAIN d.decoded_group_buf |->
                        IF d.dst <= k /\ k < d.dst + copy_count
                        THEN RawAt(d, src + (k - d.dst)) ELSE d.decoded_group_buf[k]],
                !.rd_max = IF copy_count > 0
                           THEN Max(d.rd_max, src + copy_count - 1)
                           ELSE Max(d.rd_max, d.src),
                !.wr_max = IF copy_count > 0
                           THEN Max(d.wr_max, d.dst + copy_count - 1)
                           ELSE d.wr_max,
                !.src = src + copy_count,
                !.dst = d.dst + copy_count]

\* a size test that only bounds the decoded size from above
DecodeFinishLax(d) ==
    LET decoded_bytes == d.dst
    IN  IF decoded_bytes > d.decoded_group_buf_size
        THEN [d EXCEPT !.pc = "done", !.ret = -1, !.err = "SizeMismatch"]
        ELSE [d EXCEPT !.pc = "done", !.ret = decoded_bytes]

\* the size test after the loop
DecodeFinish(d) ==
    LET decoded_bytes == d.dst
    IN  IF decoded_bytes # d.decoded_group_buf_size
        THEN [d EXCEPT !.pc = "done", !.ret = -1, !.err = "SizeMismatch"]
        ELSE [d EXCEPT !.pc = "done", !.ret = decoded_bytes]

LoopCondition(d) == d.src < d.raw_group_size

DecodeStep(d) ==
    IF LoopCondition(d)
    THEN IF IsRun(RawAt(d, d.src)) THEN RunOpcode(d) ELSE LiteralOpcode(d)
    ELSE DecodeFinish(d)

RECURSIVE DecodeLoop(_)
DecodeLoop(d) == IF d.pc = "done" THEN d ELSE DecodeLoop(DecodeStep(d))

\* the whole call
pmt_decode_group(raw_group_buf, raw_group_size, decoded_group_buf, decoded_group_buf_size, adjacent) ==
    DecodeLoop(NewDec(raw_group_buf, raw_group_size, decoded_group_buf,
                      decoded_group_buf_size, adjacent))

FreshBuffer(n) == [k \in 0..(n - 1) |-> Unwritten]

(***************************************************************************)
(* The decoder on its own: every raw buffer of up to MaxRaw bytes, every   *)
(* declared size within it, one loop iteration per step.                   *)
(***************************************************************************)
InitDecode ==
    /\ rg = IdleRg
    /\ cv = IdleCv
    /\ ct = IdleCt
    /\ pipe = IdlePipe
    /\ \E buf \in SeqsUpTo(RawBytes, MaxRaw), g \in GarbageBytes :
      \E size \in 0..Len(buf) :
        dec = NewDec(buf, size, FreshBuffer(PMT_DECODED_GROUP_BYTES),
                     PMT_DECODED_GROUP_BYTES, g)

DecRun ==
    /\ dec.pc = "loop"
    /\ LoopCondition(dec)
    /\ IsRun(RawAt(dec, dec.src))
    /\ dec' = RunOpcode(dec)
    /\ UNCHANGED <<rg, cv, ct, pipe>>

DecLiteral ==
    /\ dec.pc = "loop"
    /\ LoopCondition(dec)
    /\ ~IsRun(RawAt(dec, dec.src))
    /\ dec' = LiteralOpcode(dec)
    /\ UNCHANGED <<rg, cv, ct, pipe>>

DecFinish ==
    /\ dec.pc = "loop"
    /\ ~LoopCondition(dec)
    /\ dec' = DecodeFinish(dec)
    /\ UNCHANGED <<rg, cv, ct, pipe>>

NextDecode == DecRun \/ DecLiteral \/ DecFinish

SpecDecode == InitDecode /\ [][NextDecode]_vars


(***************************************************************************)
(* pmt_read_group.  The stream is the file's bytes and a read position;    *)
(* fread stores as many bytes as the file still has, up to the number      *)
(* asked for, advances the position by that many and returns the count.    *)
(***************************************************************************)
\* fread(ptr, 1, n, fh): the number of bytes it delivers
fread_count(stream, pos, n) == Max(0, Min(n, Len(stream) - pos))

\* the uint16_t the two prefix bytes make on the (little-endian) host
group_size_of(b0, b1) == b0 + BYTE_RANGE * b1

\* a capacity test that also refuses a group that fills the buffer exactly
GroupTooBigStrict(group_size, buf_size) == group_size >= buf_size

\* group_size > buf_size
GroupTooBig(group_size, buf_size) == group_size > buf_size

\* buf with its first n cells replaced by the n stream bytes after pos
StoreBytes(buf, stream, pos, n) ==
    [k \in 1..Len(buf) |-> IF k <= n THEN stream[pos + k] ELSE buf[k]]

pmt_read_group(stream, pos, buf, buf_size) ==
    LET got2 == fread_count(stream, pos, 2)
        pos2 == pos + got2
    IN  IF got2 # 2
        THEN [ret |-> -1, err |-> "TruncatedInput", pos |-> pos2, buf |-> buf]
        ELSE LET group_size == group_size_of(stream[pos + 1], stream[pos + 2])
             IN  IF GroupTooBig(group_size, buf_size)
                 THEN [ret |-> -1, err |-> "BufferTooSmall", pos |-> pos2, buf |-> buf]
                 ELSE LET bytes_read == fread_count(stream, pos2, group_size)
                          stored == StoreBytes(buf, stream, pos2, bytes_read)
                      IN  IF bytes_read # group_size
                          THEN [ret |-> -1, err |-> "TruncatedInput",
                                pos |-> pos2 + bytes_read, buf |-> stored]
                          ELSE [ret |-> bytes_read, err |-> "none",
                                pos |-> pos2 + bytes_read, buf |-> stored]

(***************************************************************************)
(* The group reader on its own: every stream of up to MaxStream bytes,     *)
(* every starting position, every buffer of up to MaxBuf bytes; a          *)
(* successful call may be followed by another on the same stream and       *)
(* buffer.  pos0 and buf0 remember the position and the buffer at the      *)
(* call.                                                                   *)
(***************************************************************************)
StreamBytes == {0, 1, 2}

InitRead ==
    /\ pipe = IdlePipe
    /\ dec = IdleDec
    /\ cv = IdleCv
    /\ ct = IdleCt
    /\ \E stream \in SeqsUpTo(StreamBytes, MaxStream), buf_size \in 0..MaxBuf :
       \E pos \in 0..Len(stream) :
          rg = [pc |-> "ready", stream |-> stream, pos |-> pos,
                buf |-> [k \in 1..buf_size |-> Unwritten], buf_size |-> buf_size,
                ret |-> 0, err |-> "none", pos0 |-> pos,
                buf0 |-> [k \in 1..buf_size |-> Unwritten]]

ReadGroup ==
    /\ rg.pc = "ready"
    /\ LET r == pmt_read_group(rg.stream, rg.pos, rg.buf, rg.buf_size)
       IN  rg' = [rg EXCEPT !.pc = "returned", !.ret = r.ret, !.err = r.err,
                            !.pos = r.pos, !.buf = r.buf,
                            !.pos0 = rg.pos, !.buf0 = rg.buf]
    /\ UNCHANGED <<dec, cv, ct, pipe>>

ReadAgain ==
    /\ rg.pc = "returned"
    /\ rg.ret >= 0
    /\ rg' = [rg EXCEPT !.pc = "ready"]
    /\ UNCHANGED <<dec, cv, ct, pipe>>

NextRead == ReadGroup \/ ReadAgain

SpecRead == InitRead /\ [][NextRead]_vars

(***************************************************************************)
(* C5: pmt_read_group fails if fewer than 2 bytes remain for the prefix;   *)
(* fails, reading and storing no payload byte, if the prefix exceeds       *)
(* buf_size; fails if fewer than length payload bytes remain; otherwise    *)
(* stores exactly length bytes, returns length and has advanced the        *)
(* stream by 2 + length.                                                   *)
(***************************************************************************)
C5_ReadGroup ==
    rg.pc = "returned" =>
        LET avail == Len(rg.stream) - rg.pos0
            length == rg.stream[rg.pos0 + 1] + 256 * rg.stream[rg.pos0 + 2]
        IN  CASE avail < 2 -> rg.ret = -1 /\ rg.buf = rg.buf0
              [] avail >= 2 /\ length > rg.buf_size ->
                    /\ rg.ret = -1
                    /\ rg.buf = rg.buf0
                    /\ rg.pos = rg.pos0 + 2
              [] avail >= 2 /\ length <= rg.buf_size /\ avail - 2 < length ->
                    rg.ret = -1
              [] OTHER ->
                    /\ rg.ret = length
                    /\ rg.pos = rg.pos0 + 2 + length
                    /\ \A k \in 1..rg.buf_size :
                          rg.buf[k] = IF k <= length
                                      THEN rg.stream[rg.pos0 + 2 + k]
                                      ELSE rg.buf0[k]

C5_Witness ==
    /\ rg.pc = "returned"
    /\ rg.pos0 = 3
    /\ rg.ret = 2
    /\ rg.buf_size = 3
    /\ rg.buf0[1] # Unwritten
    /\ rg.buf[1] # rg.buf0[1]

(***************************************************************************)
(* pmt_plane_pixel, bmp_pixel and convert_group_to_bmp.  A decoded group   *)
(* is a function from offsets to bytes; a row pointer is the offset        *)
(* row * PMT_DECODED_ROW_BYTES, and the row's [plane][byte] is the byte    *)
(* at plane * PMT_DECODED_ROW_PLANE_BYTES + byte past it.  The conversion  *)
(* yields the list of stores it made, in order, each an <<offset, byte>>   *)
(* relative to bmp_group_start, the set of offsets of the decoded group    *)
(* it read, and the pointer it returns.                                    *)
(***************************************************************************)
\* (pmt_byte & (1 << pmt_pixel_idx)) >> pmt_pixel_idx
pmt_plane_pixel(pmt_byte, pmt_pixel_idx) ==
    LET bit_mask == (2 ^ pmt_pixel_idx) % BYTE_RANGE
        masked == IF (pmt_byte \div bit_mask) % 2 = 1 THEN bit_mask ELSE 0
    IN  masked \div bit_mask

\* a bit position counted from the least-significant end of the byte
PixelBitLsbFirst(pmt_row_pixel_idx) ==
    LET pmt_byte_idx == pmt_row_pixel_idx \div 8
    IN  pmt_row_pixel_idx - pmt_byte_idx * 8

\* the position of the pixel's bit within its byte
PixelBit(pmt_row_pixel_idx) ==
    LET pmt_byte_idx == pmt_row_pixel_idx \div 8
    IN  7 - (pmt_row_pixel_idx - pmt_byte_idx * 8)

\* the offset of the row's [pmt_plane][pmt_byte_idx] in the decoded group
PlaneByteOffset(pmt_row, pmt_plane, pmt_byte_idx) ==
    pmt_row + pmt_plane * PMT_DECODED_ROW_PLANE_BYTES + pmt_byte_idx

\* the byte of the decoded group at an offset (0 for an offset outside it,
\* which no run of the code below produces)
GroupAt(pmt_group, off) == IF off \in DOMAIN pmt_group THEN pmt_group[off] ELSE 0

RECURSIVE PlaneLoop(_, _, _, _, _)
PlaneLoop(pmt_group, pmt_row, pmt_row_pixel_idx, pmt_plane, result) ==
    IF pmt_plane >= PMT_PLANES THEN result
    ELSE LET pmt_byte ==
                 GroupAt(pmt_group,
                         PlaneByteOffset(pmt_row, pmt_plane, pmt_row_pixel_idx \div 8))
             bit == pmt_plane_pixel(pmt_byte, PixelBit(pmt_row_pixel_idx))
         IN  PlaneLoop(pmt_group, pmt_row, pmt_row_pixel_idx, pmt_plane + 1,
                       (result + bit * (2 ^ pmt_plane)) % BYTE_RANGE)

bmp_pixel(pmt_group, pmt_row, pmt_row_pixel_idx) ==
    PlaneLoop(pmt_group, pmt_row, pmt_row_pixel_idx, 0, 0)

bmp_pixel_reads(pmt_row, pmt_row_pixel_idx) ==
    {PlaneByteOffset(pmt_row, p, pmt_row_pixel_idx \div 8) : p \in 0..(PMT_PLANES - 1)}

\* a pixel loop that puts the even pixel into the low half-byte
RECURSIVE PixelLoopSwapped(_, _, _, _, _, _)
PixelLoopSwapped(pmt_group, pmt_row, pmt_pixel_idx, bmp_ptr, bmp_byte, acc) ==
    IF pmt_pixel_idx >= PMT_PIXELS_PER_ROW
    THEN [acc EXCEPT !.end_ptr = bmp_ptr]
    ELSE LET bmp_pixel_val == bmp_pixel(pmt_group, pmt_row, pmt_pixel_idx)
             seen == [acc EXCEPT !.reads = @ \cup bmp_pixel_reads(pmt_row, pmt_pixel_idx)]
         IN  IF pmt_pixel_idx % 2 = 1
             THEN PixelLoopSwapped(pmt_group, pmt_row, pmt_pixel_idx + 1, bmp_ptr + 1, 0,
                      [seen EXCEPT !.writes =
                          Append(@, <<bmp_ptr, (bmp_byte + bmp_pixel_val * 16) % BYTE_RANGE>>)])
             ELSE PixelLoopSwapped(pmt_group, pmt_row, pmt_pixel_idx + 1, bmp_ptr,
                      (bmp_byte + bmp_pixel_val) % BYTE_RANGE, seen)

\* the inner loop of convert_group_to_bmp, from pixel pmt_pixel_idx on
RECURSIVE PixelLoop(_, _, _, _, _, _)
PixelLoop(pmt_group, pmt_row, pmt_pixel_idx, bmp_ptr, bmp_byte, acc) ==
    IF pmt_pixel_idx >= PMT_PIXELS_PER_ROW
    THEN [acc EXCEPT !.end_ptr = bmp_ptr]
    ELSE LET bmp_pixel_val == bmp_pixel(pmt_group, pmt_row, pmt_pixel_idx)
             seen == [acc EXCEPT !.reads = @ \cup bmp_pixel_reads(pmt_row, pmt_pixel_idx)]
         IN  IF pmt_pixel_idx % 2 = 1
             THEN PixelLoop(pmt_group, pmt_row, pmt_pixel_idx + 1, bmp_ptr + 1, 0,
                      [seen EXCEPT !.writes =
                          Append(@, <<bmp_ptr, (bmp_byte + bmp_pixel_val) % BYTE_RANGE>>)])
             ELSE PixelLoop(pmt_group, pmt_row, pmt_pixel_idx + 1, bmp_ptr,
                      (bmp_byte + bmp_pixel_val * 16) % BYTE_RANGE, seen)

\* the outer loop of convert_group_to_bmp, from row on
RECURSIVE RowLoop(_, _, _)
RowLoop(pmt_group, row, acc) ==
    IF row >= PMT_ROWS_PER_GROUP THEN acc
    ELSE RowLoop(pmt_group, row + 1,
                 PixelLoop(pmt_group, row * PMT_DECODED_ROW_BYTES, 0,
                           row * BMP_ROW_BYTES, 0, acc))

convert_group_to_bmp(pmt_group) ==
    RowLoop(pmt_group, 0, [writes |-> <<>>, reads |-> {}, end_ptr |-> Unwritten])

\* a buffer after a list of stores at base + offset, cells outside it ignored
RECURSIVE ApplyWrites(_, _, _, _)
ApplyWrites(buf, base, writes, k) ==
    IF k > Len(writes) THEN buf
    ELSE ApplyWrites(
            IF base + writes[k][1] \in DOMAIN buf
            THEN [buf EXCEPT ![base + writes[k][1]] = writes[k][2]] ELSE buf,
            base, writes, k + 1)

(***************************************************************************)
(* The reassembler on its own.  The decoded groups drawn hold a background *)
(* byte everywhere but at one byte position of one row, where the four     *)
(* planes hold four bytes drawn independently.                             *)
(***************************************************************************)
PlaneBytesDrawn == {0, 85, 128, 170, 255}
BackgroundBytes == {0, 255}

DrawnGroup(row, col, planes, background) ==
    [off \in 0..(PMT_DECODED_GROUP_BYTES - 1) |->
        LET r == off \div PMT_DECODED_ROW_BYTES
            p == (off % PMT_DECODED_ROW_BYTES) \div PMT_DECODED_ROW_PLANE_BYTES
            c == off % PMT_DECODED_ROW_PLANE_BYTES
        IN  IF r = row /\ c = col THEN planes[p] ELSE background]

InitConvert ==
    /\ pipe = IdlePipe
    /\ dec = IdleDec
    /\ rg = IdleRg
    /\ ct = IdleCt
    /\ \E row \in 0..(PMT_ROWS_PER_GROUP - 1),
          col \in 0..(PMT_DECODED_ROW_PLANE_BYTES - 1),
          planes \in [0..(PMT_PLANES - 1) -> PlaneBytesDrawn],
          background \in BackgroundBytes :
          cv = [pc |-> "ready",
                pmt_group |-> DrawnGroup(row, col, planes, background),
                bmp |-> FreshBuffer(BMP_GROUP_BYTES),
                writes |-> <<>>, reads |-> {}, end_ptr |-> Unwritten]

Convert ==
    /\ cv.pc = "ready"
    /\ LET r == convert_group_to_bmp(cv.pmt_group)
       IN  cv' = [cv EXCEPT !.pc = "done",
                            !.bmp = ApplyWrites(cv.bmp, 0, r.writes, 1),
                            !.writes = r.writes, !.reads = r.reads,
                            !.end_ptr = r.end_ptr]
    /\ UNCHANGED <<dec, rg, ct, pipe>>

NextConvert == Convert

SpecConvert == InitConvert /\ [][NextConvert]_vars

\* bit number n (0 the least significant) of byte b
BitOf(b, n) == (b \div (2 ^ n)) % 2

\* the 4-bit value of pixel k of row r, plane 0 the least-significant bit
RefPix(g, r, k) ==
    LET bitAt(p) == BitOf(g[r * PMT_DECODED_ROW_BYTES + p * PMT_DECODED_ROW_PLANE_BYTES
                            + k \div 8],
                          7 - (k % 8))
    IN  bitAt(0) + 2 * bitAt(1) + 4 * bitAt(2) + 8 * bitAt(3)

ShiftChannelWide(v) == v * 4

\* the value stored by  bmp[i][c] = pmt[i][2-c] << 2  into a uint8_t
ShiftChannel(v) == (v * 4) % BYTE_RANGE

\* a source channel that keeps the R, G, B order
SourceChannelSame(c) == c

\* the source channel of destination channel c
SourceChannel(c) == 2 - c

pmt_to_bmp_color_table(pmt_color_table) ==
    [e \in (0..(COLOR_ENTRIES - 1)) \X (0..(BMP_COLOR_CHANNELS - 1)) |->
        IF e[2] < PMT_COLOR_CHANNELS
        THEN ShiftChannel(pmt_color_table[<<e[1], SourceChannel(e[2])>>])
        ELSE 0]

(***************************************************************************)
(* The colour-table converter on its own.  The tables drawn hold a         *)
(* background value everywhere but in one entry, whose three channels are  *)
(* drawn independently, values above the 6-bit range included.             *)
(***************************************************************************)
ChannelsDrawn == {0, 1, 16, 32, 63, 64, 255}
ChannelBackgrounds == {0, 63}

InitColor ==
    /\ pipe = IdlePipe
    /\ dec = IdleDec
    /\ rg = IdleRg
    /\ cv = IdleCv
    /\ \E entry \in 0..(COLOR_ENTRIES - 1),
          rgb \in [0..(PMT_COLOR_CHANNELS - 1) -> ChannelsDrawn],
          background \in ChannelBackgrounds :
          ct = [pc |-> "ready",
                pmt_color_table |->
                    [e \in (0..(COLOR_ENTRIES - 1)) \X (0..(PMT_COLOR_CHANNELS - 1)) |->
                        IF e[1] = entry THEN rgb[e[2]] ELSE background],
                bmp_color_table |->
                    [e \in (0..(COLOR_ENTRIES - 1)) \X (0..(BMP_COLOR_CHANNELS - 1)) |->
                        Unwritten]]

ConvertColorTable ==
    /\ ct.pc = "ready"
    /\ ct' = [ct EXCEPT !.pc = "done",
                        !.bmp_color_table = pmt_to_bmp_color_table(ct.pmt_color_table)]
    /\ UNCHANGED <<dec, rg, cv, pipe>>

NextColor == ConvertColorTable

SpecColor == InitColor /\ [][NextColor]_vars

(***************************************************************************)
(* C7: output[i][c] = input[i][2-c] << 2 (as a byte) for c in 0..2 and     *)
(* output[i][3] = 0; for an input channel in 0..63 the output is exactly   *)
(* 4 times the input, at most 252, and loses no bit; R,G,B becomes B,G,R.  *)
(***************************************************************************)
C7_ColorTable ==
    ct.pc = "done" =>
        \A i \in 0..15 :
            /\ ct.bmp_color_table[<<i, 3>>] = 0
            /\ \A c \in 0..2 :
                LET in == ct.pmt_color_table[<<i, 2 - c>>]
                    out == ct.bmp_color_table[<<i, c>>]
                IN  /\ out = (in * 4) % 256
                    /\ in <= 63 => /\ out = 4 * in
                                   /\ out <= 252
                                   /\ out \div 4 = in

\* the example entry (0x3F, 0x20, 0x10) becomes (0x40, 0x80, 0xFC, 0x00)
C7_Witness ==
    /\ ct.pc = "done"
    /\ \E i \in 0..15 :
          /\ ct.pmt_color_table[<<i, 0>>] = 63
          /\ ct.pmt_color_table[<<i, 1>>] = 32
          /\ ct.pmt_color_table[<<i, 2>>] = 16
          /\ ct.bmp_color_table[<<i, 0>>] = 64
          /\ ct.bmp_color_table[<<i, 1>>] = 128
          /\ ct.bmp_color_table[<<i, 2>>] = 252
          /\ ct.bmp_color_table[<<i, 3>>] = 0

(***************************************************************************)
(* pmt_to_bmp and main.  The input file is drawn as it is read: each read  *)
(* step appends to the file the bytes the stream holds next (a whole       *)
(* group, or the bytes before the file ends).  A pointer into the pixel    *)
(* array is its offset from bmp_buf; NULL is a pointer of its own.         *)
(* garbage is the byte the automatic buffers hold where nothing has been   *)
(* stored, and the byte past their end.  log lists the sub-steps taken,    *)
(* each with what it returned; starts lists the stream position at which   *)
(* each read step began; count is the number of stores made to each byte   *)
(* of the pixel array; slices keeps each group's slice as it was written.  *)
(***************************************************************************)
NullPtr == [null |-> TRUE, off |-> 0]
Ptr(off) == [null |-> FALSE, off |-> off]
NoFile == [written |-> FALSE]

COLOR_TABLE_BYTES == COLOR_ENTRIES * PMT_COLOR_CHANNELS

\* a slice base that advances by a row per group
GroupBaseRowStride(i) == i * BMP_ROW_BYTES

\* bmp_buf + i * BMP_GROUP_BYTES
GroupBase(i) == i * BMP_GROUP_BYTES

\* a failure test that takes only 0 for a failure
CallFailedOnZero(ret) == ret = 0

\* group_bytes_read < 0, decoded_bytes < 0
CallFailed(ret) == ret < 0

\* main's test (out_ptr - bmp_pixel_array) == BMP_PIXEL_ARRAY_SIZE.  For NULL
\* the difference is minus the array's address, which is the array size only
\* for an array that ends at the top of the address space.
PixelArrayComplete(out_ptr) == ~out_ptr.null /\ out_ptr.off = BMP_PIXEL_ARRAY_SIZE

\* the number of stores to each byte after a list of stores at base + offset
RECURSIVE CountWrites(_, _, _, _)
CountWrites(count, base, writes, k) ==
    IF k > Len(writes) THEN count
    ELSE CountWrites(
            IF base + writes[k][1] \in DOMAIN count
            THEN [count EXCEPT ![base + writes[k][1]] = @ + 1] ELSE count,
            base, writes, k + 1)

StrayWrites(buf, base, writes) ==
    \E k \in 1..Len(writes) : base + writes[k][1] \notin DOMAIN buf

WrittenValues(writes) == [k \in 1..Len(writes) |-> writes[k][2]]

\* the two bytes of a length prefix, low byte first
LengthPrefix(n) == <<n % BYTE_RANGE, n \div BYTE_RANGE>>

GroupChunk(g) == LengthPrefix(Len(g)) \o g

\* raw groups after which the pipeline goes on: one run filling the group;
\* a literal byte and a run of the rest; one run whose fill byte is missing
ContinuingGroups ==
    {<<RUN_FLAG + FullRun, 85>>,
     <<1, 170, RUN_FLAG + FullRun - 1, 255>>,
     <<RUN_FLAG + FullRun>>}

\* raw groups the decoder refuses: too short, too long, a short literal
RefusedGroups ==
    {<<RUN_FLAG + 1, 85>>, <<RUN_FLAG + LENGTH_MASK, 85>>, <<2, 85>>}

\* what the stream may hold where a group is expected: a group; nothing; one
\* byte; a prefix with less payload than it declares; a prefix larger than
\* the buffer
GroupChunks ==
    {GroupChunk(g) : g \in ContinuingGroups \cup RefusedGroups}
        \cup {<<>>, <<2>>, <<2, 0, 85>>, LengthPrefix(PMT_DECODED_GROUP_BYTES + 1)}

\* what the stream may hold after the last group: n bytes, byte k a fixed
\* function of k and of the variant drawn
FooterLengths ==
    {0, FOOTER_SKIP, FOOTER_SKIP + COLOR_TABLE_BYTES - 1,
     FOOTER_SKIP + COLOR_TABLE_BYTES, FOOTER_SKIP + COLOR_TABLE_BYTES + 2}
FooterVariants == {0, 1}
FooterChunk(n, variant) == [k \in 1..n |-> (k * 7 + variant * 13) % BYTE_RANGE]

InitPipe ==
    /\ dec = IdleDec
    /\ rg = IdleRg
    /\ cv = IdleCv
    /\ ct = IdleCt
    /\ \E garbage \in GarbageBytes :
          pipe = [pc |-> "main",
                  garbage |-> garbage,
                  file |-> <<>>,
                  pos |-> 0,
                  i |-> 0,
                  raw_group_buf |-> [k \in 1..PMT_DECODED_GROUP_BYTES |-> Unwritten],
                  decoded_group_buf |-> FreshBuffer(PMT_DECODED_GROUP_BYTES),
                  group_bytes_read |-> 0,
                  decoded_bytes |-> 0,
                  end_ptr |-> Unwritten,
                  bmp_buf |-> FreshBuffer(BMP_PIXEL_ARRAY_SIZE),
                  bmp_color_table |->
                      [e \in (0..(COLOR_ENTRIES - 1)) \X (0..(BMP_COLOR_CHANNELS - 1)) |->
                          Unwritten],
                  result |-> NullPtr,
                  exit |-> "running",
                  out_file |-> NoFile,
                  log |-> <<>>,
                  starts |-> <<>>,
                  count |-> [k \in 0..(BMP_PIXEL_ARRAY_SIZE - 1) |-> 0],
                  stray |-> FALSE,
                  slices |-> <<>>]

Others == <<dec, rg, cv, ct>>

\* main up to the call of pmt_to_bmp
MainStart ==
    /\ pipe.pc = "main"
    /\ \E argc \in {2, 3} :
          IF argc < 3
          THEN pipe' = [pipe EXCEPT !.pc = "exit", !.exit = "1"]
          ELSE pipe' = [pipe EXCEPT !.pc = "open"]
    /\ UNCHANGED Others

\* fopen of the input file
PipeOpen ==
    /\ pipe.pc = "open"
    /\ \E opened \in BOOLEAN :
          IF ~opened
          THEN pipe' = [pipe EXCEPT !.pc = "returned", !.result = NullPtr,
                                    !.log = Append(@, <<"open", 0, -1>>)]
          ELSE pipe' = [pipe EXCEPT !.pc = "read",
                                    !.log = Append(@, <<"open", 0, 0>>)]
    /\ UNCHANGED Others

\* the loop test and the call of pmt_read_group for group i
PipeRead ==
    /\ pipe.pc = "read"
    /\ pipe.i < PMT_GROUPS
    /\ \E chunk \in GroupChunks :
          LET file == pipe.file \o chunk
              r == pmt_read_group(file, pipe.pos, pipe.raw_group_buf,
                                  PMT_DECODED_GROUP_BYTES)
              seen == [pipe EXCEPT !.file = file, !.pos = r.pos,
                                   !.raw_group_buf = r.buf,
                                   !.group_bytes_read = r.ret,
                                   !.starts = Append(@, pipe.pos),
                                   !.log = Append(@, <<"read", pipe.i, r.ret>>)]
          IN  IF CallFailed(r.ret)
              THEN pipe' = [seen EXCEPT !.pc = "returned", !.result = NullPtr]
              ELSE pipe' = [seen EXCEPT !.pc = "decode"]
    /\ UNCHANGED Others

\* the call of pmt_decode_group for group i
PipeDecode ==
    /\ pipe.pc = "decode"
    /\ LET d == pmt_decode_group(pipe.raw_group_buf, pipe.group_bytes_read,
                                 pipe.decoded_group_buf, PMT_DECODED_GROUP_BYTES,
                                 pipe.garbage)
           seen == [pipe EXCEPT !.decoded_group_buf = d.decoded_group_buf,
                                !.decoded_bytes = d.ret,
                                !.log = Append(@, <<"decode", pipe.i, d.ret>>)]
       IN  IF CallFailed(d.ret)
           THEN pipe' = [seen EXCEPT !.pc = "returned", !.result = NullPtr]
           ELSE pipe' = [seen EXCEPT !.pc = "convert"]
    /\ UNCHANGED Others

\* the call of convert_group_to_bmp for group i, and i++
PipeConvert ==
    /\ pipe.pc = "convert"
    /\ LET r == convert_group_to_bmp(pipe.decoded_group_buf)
           base == GroupBase(pipe.i)
       IN  pipe' = [pipe EXCEPT
                      !.bmp_buf = ApplyWrites(@, base, r.writes, 1),
                      !.count = CountWrites(@, base, r.writes, 1),
                      !.stray = @ \/ StrayWrites(pipe.bmp_buf, base, r.writes),
                      !.slices = Append(@, WrittenValues(r.writes)),
                      !.end_ptr = base + r.end_ptr,
                      !.log = Append(@, <<"convert", pipe.i, 0>>),
                      !.i = @ + 1,
                      !.pc = "read"]
    /\ UNCHANGED Others

\* after the loop: fseek over the reserved bytes, fread of the colour table,
\* pmt_to_bmp_color_table, return end_ptr
PipeFooter ==
    /\ pipe.pc = "read"
    /\ pipe.i >= PMT_GROUPS
    /\ \E n \in FooterLengths, variant \in FooterVariants :
          LET file == pipe.file \o FooterChunk(n, variant)
              at == pipe.pos + FOOTER_SKIP
              color_table_bytes_read == fread_count(file, at, COLOR_TABLE_BYTES)
              seen == [pipe EXCEPT !.file = file,
                                   !.pos = at + color_table_bytes_read,
                                   !.starts = Append(@, pipe.pos),
                                   !.log = Append(@, <<"footer", PMT_GROUPS,
                                                       color_table_bytes_read>>)]
          IN  IF color_table_bytes_read # COLOR_TABLE_BYTES
              THEN pipe' = [seen EXCEPT !.pc = "returned", !.result = NullPtr]
              ELSE LET pmt_color_table ==
                           [e \in (0..(COLOR_ENTRIES - 1)) \X (0..(PMT_COLOR_CHANNELS - 1)) |->
                               file[at + e[1] * PMT_COLOR_CHANNELS + e[2] + 1]]
                   IN  pipe' = [seen EXCEPT
                                  !.bmp_color_table =
                                      pmt_to_bmp_color_table(pmt_color_table),
                                  !.log = Append(seen.log, <<"table", PMT_GROUPS, 0>>),
                                  !.pc = "returned",
                                  !.result = Ptr(pipe.end_ptr)]
    /\ UNCHANGED Others

\* main after the call: the test of out_ptr, then the output file.  fopen of
\* the output file may fail, and the fwrite calls on the null stream that
\* follow end the program abnormally.
MainFinish ==
    /\ pipe.pc = "returned"
    /\ IF ~PixelArrayComplete(pipe.result)
       THEN pipe' = [pipe EXCEPT !.pc = "exit", !.exit = "1"]
       ELSE \E out_opened \in BOOLEAN :
              IF out_opened
              THEN pipe' = [pipe EXCEPT
                              !.pc = "exit", !.exit = "0",
                              !.out_file = [written |-> TRUE,
                                            color_table |-> pipe.bmp_color_table,
                                            pixel_array |-> pipe.bmp_buf]]
              ELSE pipe' = [pipe EXCEPT !.pc = "exit", !.exit = "crash"]
    /\ UNCHANGED Others

NextPipe ==
    \/ MainStart
    \/ PipeOpen
    \/ PipeRead
    \/ PipeDecode
    \/ PipeConvert
    \/ PipeFooter
    \/ MainFinish

SpecPipe == InitPipe /\ [][NextPipe]_vars

\* one iteration of the loop of pmt_to_bmp as a whole: what it does to the
\* stream position and the two scratch buffers, and the slice it writes
ProcessGroup(file, pos, raw_group_buf, decoded_group_buf, garbage) ==
    LET r == pmt_read_group(file, pos, raw_group_buf, PMT_DECODED_GROUP_BYTES)
    IN  IF CallFailed(r.ret)
        THEN [status |-> "read_failed", pos |-> r.pos, raw_group_buf |-> r.buf,
              decoded_group_buf |-> decoded_group_buf, slice |-> <<>>]
        ELSE LET d == pmt_decode_group(r.buf, r.ret, decoded_group_buf,
                                       PMT_DECODED_GROUP_BYTES, garbage)
             IN  IF CallFailed(d.ret)
                 THEN [status |-> "decode_failed", pos |-> r.pos,
                       raw_group_buf |-> r.buf,
                       decoded_group_buf |-> d.decoded_group_buf, slice |-> <<>>]
                 ELSE [status |-> "ok", pos |-> r.pos, raw_group_buf |-> r.buf,
                       decoded_group_buf |-> d.decoded_group_buf,
                       slice |-> WrittenValues(
                                    convert_group_to_bmp(d.decoded_group_buf).writes)]

\* the outcome of the n-th iteration from here (0 the next one)
RECURSIVE GroupOutcome(_, _, _, _, _, _)
GroupOutcome(file, pos, raw_group_buf, decoded_group_buf, garbage, n) ==
    LET o == ProcessGroup(file, pos, raw_group_buf, decoded_group_buf, garbage)
    IN  IF n = 0 THEN o
        ELSE IF o.status # "ok" THEN [o EXCEPT !.status = "not_reached"]
        ELSE GroupOutcome(file, o.pos, o.raw_group_buf, o.decoded_group_buf,
                          garbage, n - 1)

(***************************************************************************)
(* The order of sub-steps the pipeline is meant to take, and the log's     *)
(* reading of failure.                                                     *)
(***************************************************************************)
CanonicalAt(k) ==
    IF k = 1 THEN <<"open", 0>>
    ELSE IF k <= 1 + 3 * 6
    THEN <<(<<"read", "decode", "convert">>)[((k - 2) % 3) + 1], (k - 2) \div 3>>
    ELSE IF k = 2 + 3 * 6 THEN <<"footer", 6>>
    ELSE <<"table", 6>>

EventFailed(e) == IF e[1] = "footer" THEN e[3] # 48 ELSE e[3] < 0

LastEvent == pipe.log[Len(pipe.log)]

TableUnwritten ==
    \A e \in DOMAIN pipe.bmp_color_table : pipe.bmp_color_table[e] = Unwritten

(***************************************************************************)
(* C8: the sub-steps run in the order read, decode, reassemble for group   *)
(* 0, then for group 1, ..., then the colour table; a sub-step that fails  *)
(* is the last one taken: pmt_to_bmp returns NULL, the slice of the        *)
(* failing group and of every later group is untouched, the colour table   *)
(* is not converted, and main exits with status 1 without creating the     *)
(* output file.  An output file is written only when nothing failed.       *)
(***************************************************************************)
C8_FailFast ==
    pipe.pc # "idle" =>
        /\ \A k \in 1..Len(pipe.log) :
              <<pipe.log[k][1], pipe.log[k][2]>> = CanonicalAt(k)
        /\ \A k \in 1..Len(pipe.log) :
              EventFailed(pipe.log[k]) =>
                 /\ k = Len(pipe.log)
                 /\ pipe.pc \in {"returned", "exit"}
                 /\ pipe.result.null
                 /\ TableUnwritten
                 /\ \A b \in DOMAIN pipe.bmp_buf :
                       b >= pipe.log[k][2] * BMP_GROUP_BYTES =>
                          pipe.count[b] = 0 /\ pipe.bmp_buf[b] = Unwritten
                 /\ pipe.pc = "exit" => pipe.exit = "1" /\ pipe.out_file = NoFile
        /\ pipe.out_file.written =>
              /\ pipe.exit = "0"
              /\ Len(pipe.log) = 3 + 3 * 6
              /\ \A k \in 1..Len(pipe.log) : ~EventFailed(pipe.log[k])

C8_Witness ==
    /\ pipe.pc = "exit"
    /\ pipe.exit = "1"
    /\ Len(pipe.log) > 0
    /\ LastEvent = <<"decode", 2, -1>>
    /\ pipe.count[0] = 1
    /\ pipe.out_file = NoFile

(***************************************************************************)
(* C9: processing group i stores only into bytes [i * G, (i + 1) * G) of   *)
(* the pixel array, G the group size, each byte once, and leaves every     *)
(* other slice as it was; on success every byte of the pixel array and of  *)
(* the colour table has been written, the colour table comes from the 48   *)
(* bytes that follow the 16 reserved bytes after the last group, and the   *)
(* pointer returned is the end of the pixel array, which is what main      *)
(* requires before it writes the file.                                     *)
(***************************************************************************)
C9_Frame ==
    pipe.pc # "idle" =>
        /\ ~pipe.stray
        /\ Len(pipe.slices) = pipe.i
        /\ \A b \in DOMAIN pipe.bmp_buf :
              /\ pipe.count[b] = IF b < pipe.i * BMP_GROUP_BYTES THEN 1 ELSE 0
              /\ pipe.bmp_buf[b] = IF b < pipe.i * BMP_GROUP_BYTES
                                   THEN pipe.slices[(b \div BMP_GROUP_BYTES) + 1]
                                                   [(b % BMP_GROUP_BYTES) + 1]
                                   ELSE Unwritten
        /\ (pipe.pc \in {"returned", "exit"} /\ ~pipe.result.null) =>
              /\ pipe.i = 6
              /\ pipe.result.off = 6 * BMP_GROUP_BYTES
              /\ \A b \in DOMAIN pipe.bmp_buf : pipe.bmp_buf[b] \in 0..255
              /\ LET at == pipe.starts[6 + 1] + 16
                 IN  /\ pipe.pos = at + 48
                     /\ \A e \in 0..15 :
                           /\ pipe.bmp_color_table[<<e, 3>>] = 0
                           /\ \A c \in 0..2 :
                                 pipe.bmp_color_table[<<e, c>>] =
                                     (pipe.file[at + 3 * e + (2 - c) + 1] * 4) % 256
        /\ pipe.exit = "0" =>
              /\ ~pipe.result.null
              /\ pipe.out_file.written
              /\ pipe.out_file.pixel_array = pipe.bmp_buf
              /\ pipe.out_file.color_table = pipe.bmp_color_table

C9_Witness ==
    /\ pipe.pc = "exit"
    /\ pipe.exit = "0"
    /\ pipe.bmp_buf[0] # pipe.bmp_buf[BMP_GROUP_BYTES]
    /\ pipe.bmp_buf[BMP_GROUP_BYTES] # pipe.bmp_buf[2 * BMP_GROUP_BYTES]

\* the file with its group j replaced by the raw group g
WithGroupReplaced(file, starts, j, g) ==
    SubSeq(file, 1, starts[j + 1]) \o GroupChunk(g)
        \o SubSeq(file, starts[j + 2] + 1, Len(file))

OutcomeWithGroupReplaced(j, g, n) ==
    GroupOutcome(WithGroupReplaced(pipe.file, pipe.starts, j, g), 0,
                 [k \in 1..PMT_DECODED_GROUP_BYTES |-> Unwritten],
                 FreshBuffer(PMT_DECODED_GROUP_BYTES), pipe.garbage, n)

(***************************************************************************)
(* C10: the outcome of group i (whether it is read and decoded, and the    *)
(* slice written for it) is the same in every run on a file that has the   *)
(* same group i and another group before it: here, the file of this run    *)
(* with the group before group i replaced by any group after which the     *)
(* pipeline goes on.                                                       *)
(***************************************************************************)
C10_GroupIndependence ==
    pipe.pc # "idle" =>
        /\ (pipe.pc = "read" /\ pipe.i >= 2) =>
              \A g \in ContinuingGroups :
                 LET o == OutcomeWithGroupReplaced(pipe.i - 2, g, pipe.i - 1)
                 IN  o.status = "ok" /\ o.slice = pipe.slices[pipe.i]
        /\ (pipe.pc = "returned" /\ pipe.i >= 1 /\ LastEvent[1] = "decode"
              /\ LastEvent[3] < 0) =>
              \A g \in ContinuingGroups :
                 OutcomeWithGroupReplaced(pipe.i - 1, g, pipe.i).status = "decode_failed"

(***************************************************************************)
(* The RLE format as the specification words it, read off a raw group      *)
(* (the first raw_group_size bytes of the raw buffer) without reference    *)
(* to the decoder.  Positions are 1-based positions of the sequence.       *)
(***************************************************************************)
RawGroup(d) == SubSeq(d.raw_group_buf, 1, d.raw_group_size)

RefIsRun(b) == b >= 128
RefCount(b) == IF RefIsRun(b) THEN b - 128 ELSE b
\* the position of the opcode after the one at position i
RefNext(raw, i) == IF RefIsRun(raw[i]) THEN i + 2 ELSE i + 1 + raw[i]
\* all the bytes of the opcode at position i lie inside the raw group
RefComplete(raw, i) == RefNext(raw, i) - 1 <= Len(raw)

RECURSIVE RefWellFormedFrom(_, _)
RefWellFormedFrom(raw, i) ==
    IF i > Len(raw) THEN TRUE
    ELSE RefComplete(raw, i) /\ RefWellFormedFrom(raw, RefNext(raw, i))
RefWellFormed(raw) == RefWellFormedFrom(raw, 1)

\* n copies of v
Copies(n, v) == [k \in 1..n |-> v]

RECURSIVE RefExpandFrom(_, _)
RefExpandFrom(raw, i) ==
    IF i > Len(raw) \/ ~RefComplete(raw, i) THEN <<>>
    ELSE (IF RefIsRun(raw[i])
          THEN Copies(RefCount(raw[i]), raw[i + 1])
          ELSE SubSeq(raw, i + 1, i + raw[i]))
         \o RefExpandFrom(raw, RefNext(raw, i))
RefExpand(raw) == RefExpandFrom(raw, 1)

\* the sum of the counts the opcodes declare
RECURSIVE RefTotalFrom(_, _)
RefTotalFrom(raw, i) ==
    IF i > Len(raw) THEN 0
    ELSE RefCount(raw[i]) + RefTotalFrom(raw, RefNext(raw, i))
RefTotal(raw) == RefTotalFrom(raw, 1)

\* the 0-based offsets at which an opcode starts, and the end of the group
RECURSIVE RefBoundariesFrom(_, _)
RefBoundariesFrom(raw, i) ==
    IF i > Len(raw) THEN {i - 1}
    ELSE {i - 1} \cup RefBoundariesFrom(raw, RefNext(raw, i))
RefBoundaries(raw) == RefBoundariesFrom(raw, 1)

\* some opcode's count, added to the counts before it, exceeds cap
RECURSIVE RefOverflowsFrom(_, _, _, _)
RefOverflowsFrom(raw, i, sofar, cap) ==
    IF i > Len(raw) THEN FALSE
    ELSE \/ sofar + RefCount(raw[i]) > cap
         \/ RefOverflowsFrom(raw, RefNext(raw, i), sofar + RefCount(raw[i]), cap)
RefOverflows(raw, cap) == RefOverflowsFrom(raw, 1, 0, cap)

\* the bytes the decoder has written so far, in order
Written(d) == [k \in 1..Min(d.dst, d.decoded_group_buf_size) |-> d.decoded_group_buf[k - 1]]

IsPrefix(s, t) == Len(s) <= Len(t) /\ SubSeq(t, 1, Len(s)) = s

NothingWrittenFrom(d, from) ==
    \A k \in DOMAIN d.decoded_group_buf : k >= from => d.decoded_group_buf[k] = Unwritten

DecDone == dec.pc = "done"

(***************************************************************************)
(* C1: the decoder fails for every raw group in which some opcode needs a  *)
(* byte at an offset >= raw_group_size, and never reads raw_group_buf at   *)
(* such an offset.                                                         *)
(***************************************************************************)
C1_InputOverrunDetected ==
    dec.pc # "idle" =>
        /\ dec.rd_max < dec.raw_group_size
        /\ (DecDone /\ ~RefWellFormed(RawGroup(dec))) => dec.ret = -1

(***************************************************************************)
(* C2: the decoder never writes decoded_group_buf at an offset >=          *)
(* decoded_group_buf_size; an opcode whose count would take the output     *)
(* past the capacity makes the decoder fail with OutputOverrun, and none   *)
(* of that opcode's bytes is written.                                      *)
(***************************************************************************)
C2_NoWritePastOutput ==
    dec.pc # "idle" =>
        /\ dec.wr_max < dec.decoded_group_buf_size
        /\ dec.dst <= dec.decoded_group_buf_size
        /\ dec.wr_max < dec.dst
        /\ NothingWrittenFrom(dec, dec.dst)
        /\ (DecDone /\ dec.err = "OutputOverrun") => dec.ret = -1
        /\ (DecDone /\ RefWellFormed(RawGroup(dec))
              /\ RefOverflows(RawGroup(dec), dec.decoded_group_buf_size))
           => dec.ret = -1 /\ dec.err = "OutputOverrun"

C2_Witness ==
    /\ DecDone
    /\ dec.err = "OutputOverrun"
    /\ dec.dst > 0
    /\ RefWellFormed(RawGroup(dec))
    /\ RefTotal(RawGroup(dec)) = dec.decoded_group_buf_size + 1

(***************************************************************************)
(* C3: the decoder returns success only with exactly the target size       *)
(* written and all input consumed, and then returns that size; a raw       *)
(* group whose opcodes declare a different total returns -1 (SizeMismatch  *)
(* when the total is short); every well-formed raw group whose opcodes     *)
(* sum to the target size decodes successfully.                            *)
(***************************************************************************)
C3_ExactSize ==
    DecDone =>
        LET raw == RawGroup(dec)
            cap == dec.decoded_group_buf_size
        IN  /\ dec.ret # -1 =>
                /\ dec.ret = cap
                /\ dec.dst = cap
                /\ dec.src >= dec.raw_group_size
                /\ dec.err = "none"
            /\ RefTotal(raw) # cap => dec.ret = -1
            /\ (RefWellFormed(raw) /\ RefTotal(raw) < cap) => dec.err = "SizeMismatch"
            /\ (RefWellFormed(raw) /\ RefTotal(raw) = cap) => dec.ret = cap

C3_Witness ==
    /\ DecDone
    /\ dec.ret = PMT_DECODED_GROUP_BYTES
    /\ RefWellFormed(RawGroup(dec))
    /\ dec.raw_group_size = 4

(***************************************************************************)
(* C4: for a well-formed raw group the bytes written are the               *)
(* concatenation, in input order, of the opcodes' expansions: at every     *)
(* opcode boundary the output is the expansion of the input consumed so    *)
(* far (so an opcode with n = 0 writes nothing and consumes 2 resp. 1      *)
(* bytes), and at the end it is the expansion of the whole group unless    *)
(* the output overran.                                                     *)
(***************************************************************************)
C4_Expansion ==
    (dec.pc # "idle" /\ RefWellFormed(RawGroup(dec))) =>
        LET raw == RawGroup(dec)
        IN  /\ IsPrefix(Written(dec), RefExpand(raw))
            /\ NothingWrittenFrom(dec, dec.dst)
            /\ dec.err # "OutputOverrun" =>
                 /\ dec.src \in RefBoundaries(raw)
                 /\ Written(dec) = RefExpand(SubSeq(raw, 1, dec.src))
            /\ (DecDone /\ dec.err # "OutputOverrun") => Written(dec) = RefExpand(raw)

C4_Witness ==
    /\ DecDone
    /\ dec.ret = PMT_DECODED_GROUP_BYTES
    /\ dec.raw_group_size = 4
    /\ dec.raw_group_buf[1] = 1
    /\ dec.raw_group_buf[2] # dec.raw_group_buf[4]
    /\ RefWellFormed(RawGroup(dec))

=============================================================================
